---------------------------- MODULE Spec2Model ----------------------------
(***************************************************************************)
(* Model of the protoc plugin UnrealGenerator (plugin/protoc_gen_unreal.cpp).*)
(*                                                                         *)
(* The plugin is a function of one FileDescriptor.  The descriptor tree is *)
(* the input chosen in Init; the actions are the successive parts of       *)
(* UnrealGenerator::Generate, each of which opens output units and prints  *)
(* into them.  A printed line is a record holding the template text of the *)
(* io::Printer::Print call (without its newlines) and the values of the    *)
(* variables substituted into it.  The claims about the conversion are     *)
(* read off the statements of the emitted conversion functions.            *)
(*                                                                         *)
(* Identifiers of the schema are sequences of one-character strings, so    *)
(* that ToPascalCase and tolower work on characters; emitted identifiers   *)
(* are strings.                                                            *)
(***************************************************************************)
EXTENDS Integers, Sequences, FiniteSets, TLC

(***************************************************************************)
(* Bounds of the input space.                                              *)
(***************************************************************************)
\* largest number of fields of the varied message Foo
MaxFields == 2

(***************************************************************************)
(* Characters and strings.                                                 *)
(***************************************************************************)
LowerChars ==
    <<"a","b","c","d","e","f","g","h","i","j","k","l","m",
      "n","o","p","q","r","s","t","u","v","w","x","y","z">>

UpperChars ==
    <<"A","B","C","D","E","F","G","H","I","J","K","L","M",
      "N","O","P","Q","R","S","T","U","V","W","X","Y","Z">>

IndexIn(c, chars) ==
    IF \E k \in 1..Len(chars) : chars[k] = c
    THEN CHOOSE k \in 1..Len(chars) : chars[k] = c
    ELSE 0

\* toupper(3) in the C locale
toupper(c) ==
    IF IndexIn(c, LowerChars) # 0 THEN UpperChars[IndexIn(c, LowerChars)] ELSE c

\* tolower(3) in the C locale
tolower(c) ==
    IF IndexIn(c, UpperChars) # 0 THEN LowerChars[IndexIn(c, UpperChars)] ELSE c

\* std::string(name): the characters of a descriptor name as one string
RECURSIVE Str(_)
Str(s) == IF s = <<>> THEN "" ELSE Head(s) \o Str(Tail(s))

\* std::ranges::transform(low_name, low_name.begin(), ::tolower)
RECURSIVE LowName(_)
LowName(s) == IF s = <<>> THEN "" ELSE tolower(Head(s)) \o LowName(Tail(s))

\* the loop of ToPascalCase from character k on, bNextUpper being the flag;
\* the result as a sequence of characters
RECURSIVE PascalFrom(_, _, _)
PascalFrom(input, k, bNextUpper) ==
    IF k > Len(input) THEN <<>>
    ELSE IF input[k] = "_" THEN PascalFrom(input, k + 1, TRUE)
    ELSE IF bNextUpper THEN <<toupper(input[k])>> \o PascalFrom(input, k + 1, FALSE)
    ELSE <<tolower(input[k])>> \o PascalFrom(input, k + 1, FALSE)

ToPascalCase(input) == Str(PascalFrom(input, 1, TRUE))

(***************************************************************************)
(* The descriptor model (google::protobuf::descriptor.h).                  *)
(*   field   : name, type, repeated, message_type (id, 0 = none),          *)
(*             enum_type (name, <<>> = none), oneof (index into the        *)
(*             message's oneofs, 0 = none), proto3_optional, presence      *)
(*   oneof   : name, fields (indices into the message's fields)            *)
(*   enum    : name, values (name, number)                                 *)
(*   message : name, parent (id, 0 = file), map_entry, fields, oneofs,     *)
(*             enums, nested (ids)                                         *)
(*   file    : name, package, enums, message_type (ids), msgs (id -> msg)  *)
(* A message is identified by its id, as a Descriptor is by its address.   *)
(***************************************************************************)
\* FieldDescriptor::is_map
is_map(fd, f) ==
    f.type = "TYPE_MESSAGE" /\ fd.msgs[f.message_type].map_entry

\* FieldDescriptor::has_presence
has_presence(f) ==
    ~f.repeated /\ (f.type = "TYPE_MESSAGE" \/ f.oneof # 0 \/ f.presence)

\* FieldDescriptor::containing_oneof: 0 stands for nullptr
containing_oneof(f) == f.oneof

\* FieldDescriptor::real_containing_oneof: 0 stands for nullptr
real_containing_oneof(f) == IF f.proto3_optional THEN 0 ELSE f.oneof

\* Descriptor::FindFieldByName
FindFieldByName(m, name) ==
    m.fields[CHOOSE k \in 1..Len(m.fields) : Str(m.fields[k].name) = name]

(***************************************************************************)
(* TypeMapper: GetBaseUEType and GetUEType.                                *)
(***************************************************************************)
type_map ==
    [t \in {"TYPE_DOUBLE", "TYPE_FLOAT", "TYPE_INT64", "TYPE_UINT64",
            "TYPE_INT32", "TYPE_BOOL", "TYPE_STRING"} |->
        CASE t = "TYPE_DOUBLE" -> "double"
          [] t = "TYPE_FLOAT"  -> "float"
          [] t = "TYPE_INT64"  -> "int64"
          [] t = "TYPE_UINT64" -> "uint64"
          [] t = "TYPE_INT32"  -> "int32"
          [] t = "TYPE_BOOL"   -> "bool"
          [] t = "TYPE_STRING" -> "FString"]

GetBaseUEType(fd, f) ==
    IF f.type = "TYPE_MESSAGE" THEN "F" \o Str(fd.msgs[f.message_type].name)
    ELSE IF f.type = "TYPE_ENUM" THEN "E" \o Str(f.enum_type)
    ELSE IF f.type \in DOMAIN type_map THEN type_map[f.type]
    ELSE "FString"

GetUEType(fd, f) ==
    IF is_map(fd, f)
    THEN LET entry == fd.msgs[f.message_type]
         IN  "TMap<" \o GetBaseUEType(fd, FindFieldByName(entry, "key")) \o ", "
                     \o GetBaseUEType(fd, FindFieldByName(entry, "value")) \o ">"
    ELSE LET base == GetBaseUEType(fd, f)
         IN  IF f.repeated THEN "TArray<" \o base \o ">"
             ELSE IF has_presence(f) THEN "TOptional<" \o base \o ">"
             ELSE base


(***************************************************************************)
(* EnumEmitter: GenerateEnum and GenerateNestedEnums.                      *)
(***************************************************************************)
RECURSIVE EnumValuesFrom(_, _)
EnumValuesFrom(enum_desc, j) ==
    IF j > Len(enum_desc.values) THEN <<>>
    ELSE <<[tpl |-> "$v$ = $num$,",
            v   |-> ToPascalCase(enum_desc.values[j].name),
            num |-> enum_desc.values[j].number]>>
         \o EnumValuesFrom(enum_desc, j + 1)

GenerateEnum(enum_desc) ==
    <<[tpl |-> "UENUM(BlueprintType) enum class E$n$ : uint8 {",
       n   |-> Str(enum_desc.name)]>>
    \o EnumValuesFrom(enum_desc, 1)
    \o <<[tpl |-> "};"]>>

RECURSIVE EnumsFrom(_, _)
EnumsFrom(enums, i) ==
    IF i > Len(enums) THEN <<>>
    ELSE GenerateEnum(enums[i]) \o EnumsFrom(enums, i + 1)

RECURSIVE GenerateNestedEnums(_, _)
RECURSIVE NestedEnumsFrom(_, _, _)
NestedEnumsFrom(fd, nested, i) ==
    IF i > Len(nested) THEN <<>>
    ELSE GenerateNestedEnums(fd, nested[i]) \o NestedEnumsFrom(fd, nested, i + 1)

\* GenerateNestedEnums without its test of map_entry
GenerateNestedEnumsOfEntries(fd, msg) ==
    EnumsFrom(fd.msgs[msg].enums, 1)
    \o NestedEnumsFrom(fd, fd.msgs[msg].nested, 1)

\* msg is the id of a message of fd
GenerateNestedEnums(fd, msg) ==
    IF fd.msgs[msg].map_entry THEN <<>>
    ELSE EnumsFrom(fd.msgs[msg].enums, 1)
         \o NestedEnumsFrom(fd, fd.msgs[msg].nested, 1)

(***************************************************************************)
(* UnionEmitter: GenerateOneofEnum.                                        *)
(***************************************************************************)
\* oneof->field(0)->real_containing_oneof() == nullptr
IsSyntheticOneof(m, oneof) ==
    real_containing_oneof(m.fields[oneof.fields[1]]) = 0

RECURSIVE OneofEnumMembersFrom(_, _, _)
OneofEnumMembersFrom(m, oneof, j) ==
    IF j > Len(oneof.fields) THEN <<>>
    ELSE <<[tpl |-> "$f$,", f |-> ToPascalCase(m.fields[oneof.fields[j]].name)]>>
         \o OneofEnumMembersFrom(m, oneof, j + 1)

RECURSIVE OneofEnumsFrom(_, _, _)
OneofEnumsFrom(m, msg_name, i) ==
    IF i > Len(m.oneofs) THEN <<>>
    ELSE LET oneof == m.oneofs[i]
         IN  (IF IsSyntheticOneof(m, oneof) THEN <<>>
              ELSE <<[tpl |-> "UENUM(BlueprintType) enum class E$n$Type : uint8 {",
                      n   |-> msg_name \o ToPascalCase(oneof.name)],
                     [tpl |-> "None = 0,"]>>
                   \o OneofEnumMembersFrom(m, oneof, 1)
                   \o <<[tpl |-> "};"]>>)
             \o OneofEnumsFrom(m, msg_name, i + 1)

GenerateOneofEnum(m, msg_name) == OneofEnumsFrom(m, msg_name, 1)

(***************************************************************************)
(* StructEmitter: GenerateStruct.                                          *)
(***************************************************************************)
\* the loop over the oneofs that declares the discriminator members
RECURSIVE StructDiscriminatorsFrom(_, _, _)
StructDiscriminatorsFrom(m, msg_name, i) ==
    IF i > Len(m.oneofs) THEN <<>>
    ELSE LET oneof == m.oneofs[i]
         IN  (IF IsSyntheticOneof(m, oneof) THEN <<>>
              ELSE <<[tpl |-> "$up$E$en$Type $sn$Type = E$en$Type::None;",
                      en  |-> msg_name \o ToPascalCase(oneof.name),
                      sn  |-> ToPascalCase(oneof.name)]>>)
             \o StructDiscriminatorsFrom(m, msg_name, i + 1)

\* the loop over the fields that declares the members
RECURSIVE StructFieldsFrom(_, _, _)
StructFieldsFrom(fd, m, j) ==
    IF j > Len(m.fields) THEN <<>>
    ELSE LET f == m.fields[j]
         IN  (IF real_containing_oneof(f) = 0 /\ containing_oneof(f) # 0 THEN <<>>
              ELSE <<[tpl |-> "$up$$t$ $n$;",
                      t   |-> GetUEType(fd, f),
                      n   |-> ToPascalCase(f.name)]>>)
             \o StructFieldsFrom(fd, m, j + 1)

\* the loop over the fields, skipping the members of every oneof
RECURSIVE StructFieldsOutsideOneofsFrom(_, _, _)
StructFieldsOutsideOneofsFrom(fd, m, j) ==
    IF j > Len(m.fields) THEN <<>>
    ELSE LET f == m.fields[j]
         IN  (IF containing_oneof(f) # 0 THEN <<>>
              ELSE <<[tpl |-> "$up$$t$ $n$;",
                      t   |-> GetUEType(fd, f),
                      n   |-> ToPascalCase(f.name)]>>)
             \o StructFieldsOutsideOneofsFrom(fd, m, j + 1)

StructFieldsOutsideOneofs(fd, m) == StructFieldsOutsideOneofsFrom(fd, m, 1)

StructFields(fd, m) == StructFieldsFrom(fd, m, 1)

GenerateStruct(fd, m) ==
    LET msg_name == Str(m.name)
    IN  GenerateOneofEnum(m, msg_name)
        \o <<[tpl |-> "$us$struct F$n$ {", n |-> msg_name],
             [tpl |-> "GENERATED_BODY()"]>>
        \o StructDiscriminatorsFrom(m, msg_name, 1)
        \o StructFields(fd, m)
        \o <<[tpl |-> "};"]>>

(***************************************************************************)
(* ConversionEmitter: GenerateStaticConversionFunction.                    *)
(***************************************************************************)
\* one case of the switch of a real oneof
OneofCase(fd, m, name_space, un_oneof, f) ==
    LET un_f == ToPascalCase(f.name)
        pn_f == LowName(f.name)
        mn   == Str(m.name)
        et   == GetBaseUEType(fd, f)
    IN  <<[tpl |-> "case $ns$$mn$::k$un_f$:", ns |-> name_space, mn |-> mn,
           un_f |-> un_f]>>
        \o (IF f.type = "TYPE_MESSAGE"
              THEN <<[tpl |-> "Out.$un_f$ = $cn$::Convert(In.$pn_f$());",
                      un_f |-> un_f, pn_f |-> pn_f]>>
            ELSE IF f.type = "TYPE_STRING"
              THEN <<[tpl |-> "Out.$un_f$ = FString(UTF8_TO_TCHAR(In.$pn_f$().c_str()));",
                      un_f |-> un_f, pn_f |-> pn_f]>>
            ELSE IF f.type = "TYPE_ENUM"
              THEN <<[tpl |-> "Out.$un_f$ = static_cast<$et$>(In.$pn_f$());",
                      un_f |-> un_f, pn_f |-> pn_f, et |-> et]>>
            ELSE <<[tpl |-> "Out.$un_f$ = In.$pn_f$();",
                    un_f |-> un_f, pn_f |-> pn_f]>>)
        \o <<[tpl |-> "Out.$un_t$Type = E$mn$$un_t$Type::$un_f$; break;",
              un_t |-> un_oneof, mn |-> mn, un_f |-> un_f]>>

RECURSIVE OneofCasesFrom(_, _, _, _, _)
OneofCasesFrom(fd, m, name_space, oneof, j) ==
    IF j > Len(oneof.fields) THEN <<>>
    ELSE OneofCase(fd, m, name_space, ToPascalCase(oneof.name),
                   m.fields[oneof.fields[j]])
         \o OneofCasesFrom(fd, m, name_space, oneof, j + 1)

\* the loop over the oneofs that emits one switch per real oneof
RECURSIVE ConvertSwitchesFrom(_, _, _, _)
ConvertSwitchesFrom(fd, m, name_space, i) ==
    IF i > Len(m.oneofs) THEN <<>>
    ELSE LET oneof == m.oneofs[i]
         IN  (IF IsSyntheticOneof(m, oneof) THEN <<>>
              ELSE <<[tpl |-> "switch (In.$pn$_case()) {", pn |-> Str(oneof.name)]>>
                   \o OneofCasesFrom(fd, m, name_space, oneof, 1)
                   \o <<[tpl |-> "default: break; }"]>>)
             \o ConvertSwitchesFrom(fd, m, name_space, i + 1)

\* the statements emitted for one field that the field loop does not skip
ConvertField(fd, f) ==
    LET un == ToPascalCase(f.name)
        pn == LowName(f.name)
        et == GetBaseUEType(fd, f)
    IN  IF is_map(fd, f) THEN
            LET vf == FindFieldByName(fd.msgs[f.message_type], "value")
            IN  <<[tpl |-> "for (const auto& P : In.$pn$()) {", pn |-> pn]>>
                \o (IF vf.type = "TYPE_MESSAGE"
                      THEN <<[tpl |-> "Out.$un$.Add(P.first, $cn$::Convert(P.second));",
                              un |-> un]>>
                    ELSE IF vf.type = "TYPE_STRING"
                      THEN <<[tpl |-> "Out.$un$.Add(P.first, FString(UTF8_TO_TCHAR(P.second.c_str())));",
                              un |-> un]>>
                    ELSE IF vf.type = "TYPE_ENUM"
                      THEN <<[tpl |-> "Out.$un$.Add(P.first, static_cast<$vet$>(P.second));",
                              un |-> un, vet |-> "E" \o Str(vf.enum_type)]>>
                    ELSE <<[tpl |-> "Out.$un$.Add(P.first, P.second);", un |-> un]>>)
                \o <<[tpl |-> "}"]>>
        ELSE IF f.repeated THEN
            <<[tpl |-> "for (const auto& E : In.$pn$()) {", pn |-> pn]>>
            \o (IF f.type = "TYPE_MESSAGE"
                  THEN <<[tpl |-> "Out.$un$.Add($cn$::Convert(E));", un |-> un]>>
                ELSE IF f.type = "TYPE_STRING"
                  THEN <<[tpl |-> "Out.$un$.Add(FString(UTF8_TO_TCHAR(E.c_str())));",
                          un |-> un]>>
                ELSE IF f.type = "TYPE_ENUM"
                  THEN <<[tpl |-> "Out.$un$.Add(static_cast<$et$>(E));",
                          un |-> un, et |-> et]>>
                ELSE <<[tpl |-> "Out.$un$.Add(E);", un |-> un]>>)
            \o <<[tpl |-> "}"]>>
        ELSE IF f.type = "TYPE_MESSAGE" THEN
            <<[tpl |-> "if (In.has_$pn$()) Out.$un$ = $cn$::Convert(In.$pn$());",
               un |-> un, pn |-> pn]>>
        ELSE IF f.type = "TYPE_STRING" THEN
            <<[tpl |-> "Out.$un$ = FString(UTF8_TO_TCHAR(In.$pn$().c_str()));",
               un |-> un, pn |-> pn]>>
        ELSE IF f.type = "TYPE_ENUM" THEN
            <<[tpl |-> "Out.$un$ = static_cast<$et$>(In.$pn$());",
               un |-> un, pn |-> pn, et |-> et]>>
        ELSE <<[tpl |-> "Out.$un$ = In.$pn$();", un |-> un, pn |-> pn]>>

\* the loop over the fields
RECURSIVE ConvertFieldsFrom(_, _, _)
ConvertFieldsFrom(fd, m, j) ==
    IF j > Len(m.fields) THEN <<>>
    ELSE LET f == m.fields[j]
         IN  (IF containing_oneof(f) # 0 /\ real_containing_oneof(f) = 0 THEN <<>>
              ELSE ConvertField(fd, f))
             \o ConvertFieldsFrom(fd, m, j + 1)

ConvertFields(fd, m) == ConvertFieldsFrom(fd, m, 1)

GenerateStaticConversionFunction(fd, m, name_space) ==
    <<[tpl |-> "F$n$ $cn$::Convert(const $ns$$n$& In) {",
       n |-> Str(m.name), ns |-> name_space],
      [tpl |-> "F$n$ Out;", n |-> Str(m.name)]>>
    \o ConvertSwitchesFrom(fd, m, name_space, 1)
    \o ConvertFields(fd, m)
    \o <<[tpl |-> "return Out;"], [tpl |-> "}"]>>


(***************************************************************************)
(* DependencyCollector and FileOrganizer: the parts of Generate.           *)
(***************************************************************************)
\* the message a field depends on, 0 standing for nullptr
DepTarget(fd, f) ==
    IF f.type = "TYPE_MESSAGE"
    THEN IF is_map(fd, f)
         THEN FindFieldByName(fd.msgs[f.message_type], "value").message_type
         ELSE f.message_type
    ELSE 0

\* the loop over the fields that prints the includes; deps is the std::set
RECURSIVE DepIncludesFrom(_, _, _, _)
DepIncludesFrom(fd, m, j, deps) ==
    IF j > Len(m.fields) THEN <<>>
    ELSE LET target == DepTarget(fd, m.fields[j])
         IN  IF /\ target # 0
                /\ fd.msgs[target].name # m.name
                /\ Str(fd.msgs[target].name) \notin deps
             THEN <<[tpl |-> "#include F$d$.h", d |-> Str(fd.msgs[target].name)]>>
                  \o DepIncludesFrom(fd, m, j + 1,
                                     deps \cup {Str(fd.msgs[target].name)})
             ELSE DepIncludesFrom(fd, m, j + 1, deps)

DepIncludes(fd, m) == DepIncludesFrom(fd, m, 1, {})

\* the position of the last '.' of a sequence of characters, 0 if none
find_last_of(s, c) ==
    IF \E k \in 1..Len(s) : s[k] = c
    THEN CHOOSE k \in 1..Len(s) : s[k] = c /\ \A l \in (k+1)..Len(s) : s[l] # c
    ELSE 0

base_filename(fd) ==
    LET b == PascalFrom(fd.name, 1, TRUE)
    IN  IF find_last_of(b, ".") # 0
        THEN Str(SubSeq(b, 1, find_last_of(b, ".") - 1))
        ELSE Str(b)

proto_ns(fd) ==
    IF fd.package = <<>> THEN "::" ELSE "::" \o Str(fd.package) \o "::"

enum_h(fd) == base_filename(fd) \o "Enums.h"

\* the contents of the enums unit
EnumsUnit(fd) ==
    <<[tpl |-> "#pragma once #include CoreMinimal.h #include $b$Enums.generated.h",
       b |-> base_filename(fd)]>>
    \o EnumsFrom(fd.enums, 1)
    \o NestedEnumsFrom(fd, fd.message_type, 1)

\* the contents of the declaration unit of a top-level message
MessageUnit(fd, m) ==
    <<[tpl |-> "#pragma once #include CoreMinimal.h #include $eh$",
       eh |-> enum_h(fd)]>>
    \o DepIncludes(fd, m)
    \o <<[tpl |-> "#include F$n$.generated.h", n |-> Str(m.name)]>>
    \o GenerateStruct(fd, m)

RECURSIVE ConverterIncludesFrom(_, _)
ConverterIncludesFrom(fd, i) ==
    IF i > Len(fd.message_type) THEN <<>>
    ELSE (IF ~fd.msgs[fd.message_type[i]].map_entry
          THEN <<[tpl |-> "#include F$n$.h",
                  n |-> Str(fd.msgs[fd.message_type[i]].name)]>>
          ELSE <<>>)
         \o ConverterIncludesFrom(fd, i + 1)

RECURSIVE ConverterSignaturesFrom(_, _)
ConverterSignaturesFrom(fd, i) ==
    IF i > Len(fd.message_type) THEN <<>>
    ELSE (IF ~fd.msgs[fd.message_type[i]].map_entry
          THEN <<[tpl |-> "static F$n$ Convert(const $ns$$n$& In);",
                  n  |-> Str(fd.msgs[fd.message_type[i]].name),
                  ns |-> proto_ns(fd)]>>
          ELSE <<>>)
         \o ConverterSignaturesFrom(fd, i + 1)

\* the contents of the converter interface unit
ConverterHeaderUnit(fd) ==
    <<[tpl |-> "#pragma once #include CoreMinimal.h #include $b$.pb.h",
       b |-> base_filename(fd)]>>
    \o ConverterIncludesFrom(fd, 1)
    \o <<[tpl |-> "class $cn$ {"]>>
    \o ConverterSignaturesFrom(fd, 1)
    \o <<[tpl |-> "};"]>>

RECURSIVE ConverterBodiesFrom(_, _)
ConverterBodiesFrom(fd, i) ==
    IF i > Len(fd.message_type) THEN <<>>
    ELSE (IF ~fd.msgs[fd.message_type[i]].map_entry
          THEN GenerateStaticConversionFunction(fd, fd.msgs[fd.message_type[i]],
                                                proto_ns(fd))
          ELSE <<>>)
         \o ConverterBodiesFrom(fd, i + 1)

\* the contents of the converter implementation unit
ConverterSourceUnit(fd) ==
    <<[tpl |-> "#include $b$Converter.h #include $b$.pb.h",
       b |-> base_filename(fd)]>>
    \o ConverterBodiesFrom(fd, 1)


(***************************************************************************)
(* The input descriptor trees.                                             *)
(*                                                                         *)
(* Every file has the messages                                             *)
(*   1  Foo    top-level; its fields and oneofs are varied                 *)
(*   2  Bar    top-level; a real oneof my_kind of a (int32), b (Foo) and   *)
(*             c (string), so that Foo and Bar can refer to each other     *)
(*   3  a message nested in Foo or in Bar, named Foo, Bar or Baz           *)
(*   4  the map-entry message of Foo's map fields, nested in Foo           *)
(*   5  a message flagged map_entry that owns an enum, top-level or nested *)
(*      in Bar                                                             *)
(*   6  Deep, nested in message 3, with a field of the type of message 3   *)
(* Sibling names are unique, as the descriptor library guarantees.         *)
(***************************************************************************)
Chars(n) ==
    CASE n = "a_b"    -> <<"a", "_", "b">>
      [] n = "Cd"     -> <<"C", "d">>
      [] n = "e"      -> <<"e">>
      [] n = "f_g"    -> <<"f", "_", "g">>
      [] n = "h"      -> <<"h">>
      [] n = "a"      -> <<"a">>
      [] n = "b"      -> <<"b">>
      [] n = "c"      -> <<"c">>
      [] n = "x"      -> <<"x">>
      [] n = "up"     -> <<"u", "p">>
      [] n = "key"    -> <<"k", "e", "y">>
      [] n = "value"  -> <<"v", "a", "l", "u", "e">>
      [] n = "Foo"    -> <<"F", "o", "o">>
      [] n = "Bar"    -> <<"B", "a", "r">>
      [] n = "Baz"    -> <<"B", "a", "z">>
      [] n = "Deep"   -> <<"D", "e", "e", "p">>
      [] n = "Stray"  -> <<"S", "t", "r", "a", "y">>
      [] n = "MEntry" -> <<"M", "E", "n", "t", "r", "y">>
      [] n = "Color"  -> <<"C", "o", "l", "o", "r">>
      [] n = "Mode"   -> <<"M", "o", "d", "e">>
      [] n = "Shade"  -> <<"S", "h", "a", "d", "e">>
      [] n = "Hidden" -> <<"H", "i", "d", "d", "e", "n">>
      [] n = "RED"    -> <<"R", "E", "D">>
      [] n = "dark_blue" -> <<"d", "a", "r", "k", "_", "b", "l", "u", "e">>
      [] n = "ALIAS"  -> <<"A", "L", "I", "A", "S">>
      [] n = "ON"     -> <<"O", "N">>
      [] n = "sel"    -> <<"s", "e", "l">>
      [] n = "my_kind" -> <<"m", "y", "_", "k", "i", "n", "d">>
      [] n = "p"      -> <<"p">>
      [] n = ""       -> <<>>
      [] n = "my_api.proto" ->
            <<"m", "y", "_", "a", "p", "i", ".", "p", "r", "o", "t", "o">>
      [] n = "Api.proto" ->
            <<"A", "p", "i", ".", "p", "r", "o", "t", "o">>

FieldNames == <<Chars("a_b"), Chars("Cd"), Chars("e"), Chars("f_g"), Chars("h")>>

Color  == [name |-> Chars("Color"),
           values |-> <<[name |-> Chars("RED"), number |-> 0],
                        [name |-> Chars("dark_blue"), number |-> 5],
                        [name |-> Chars("ALIAS"), number |-> 5]>>]
Mode   == [name |-> Chars("Mode"), values |-> <<[name |-> Chars("ON"), number |-> 0]>>]
Shade  == [name |-> Chars("Shade"), values |-> <<>>]
Hidden == [name |-> Chars("Hidden"), values |-> <<[name |-> Chars("ON"), number |-> 0]>>]

\* a field outside any oneof
Field(name, type, repeated, message_type, enum_type, presence) ==
    [name |-> name, type |-> type, repeated |-> repeated,
     message_type |-> message_type, enum_type |-> enum_type,
     oneof |-> 0, proto3_optional |-> FALSE, presence |-> presence]

Scalar(name, type) == Field(name, type, FALSE, 0, <<>>, FALSE)

\* the kinds of field of the varied message: a field without its name
FieldTemplates ==
    {Scalar(<<>>, t) : t \in {"TYPE_INT32", "TYPE_STRING", "TYPE_UINT32"}}
    \cup {Field(<<>>, "TYPE_INT32", FALSE, 0, <<>>, TRUE),
          Field(<<>>, "TYPE_ENUM", FALSE, 0, Chars("Color"), FALSE),
          Field(<<>>, "TYPE_STRING", TRUE, 0, <<>>, FALSE)}
    \cup {Field(<<>>, "TYPE_MESSAGE", FALSE, id, <<>>, FALSE) : id \in {1, 2, 3}}
    \cup {Field(<<>>, "TYPE_MESSAGE", TRUE, 4, <<>>, FALSE)}

\* the shapes of the varied message: the templates of its fields, the number
\* of leading fields in the real oneof sel, and whether the next field is a
\* proto3 optional field (the sole member of a synthetic oneof)
FooShapes ==
    {sh \in [ts : UNION {[1..n -> FieldTemplates] : n \in 0..MaxFields},
             real : 0..MaxFields, synth : BOOLEAN] :
        /\ sh.real + (IF sh.synth THEN 1 ELSE 0) <= Len(sh.ts)
        /\ \A j \in 1..Len(sh.ts) :
              IF j <= sh.real + (IF sh.synth THEN 1 ELSE 0)
              THEN ~sh.ts[j].repeated /\ ~sh.ts[j].presence
              ELSE sh.synth => ~sh.ts[j].presence}

Foo(sh) ==
    [name |-> Chars("Foo"), parent |-> 0, map_entry |-> FALSE,
     fields |->
        [j \in 1..Len(sh.ts) |->
            [sh.ts[j] EXCEPT
                !.name = FieldNames[j],
                !.oneof = IF j <= sh.real THEN 1
                          ELSE IF sh.synth /\ j = sh.real + 1
                               THEN (IF sh.real > 0 THEN 2 ELSE 1)
                          ELSE 0,
                !.proto3_optional = sh.synth /\ j = sh.real + 1]],
     oneofs |->
        (IF sh.real > 0
         THEN <<[name |-> Chars("sel"), fields |-> [j \in 1..sh.real |-> j]]>>
         ELSE <<>>)
        \o (IF sh.synth
            THEN <<[name |-> <<"_">> \o FieldNames[sh.real + 1],
                    fields |-> <<sh.real + 1>>]>>
            ELSE <<>>),
     enums |-> <<Mode>>]

Bar ==
    [name |-> Chars("Bar"), parent |-> 0, map_entry |-> FALSE,
     fields |-> <<[Scalar(Chars("a"), "TYPE_INT32") EXCEPT !.oneof = 1],
                  [Field(Chars("b"), "TYPE_MESSAGE", FALSE, 1, <<>>, FALSE)
                      EXCEPT !.oneof = 1],
                  [Scalar(Chars("c"), "TYPE_STRING") EXCEPT !.oneof = 1]>>,
     oneofs |-> <<[name |-> Chars("my_kind"), fields |-> <<1, 2, 3>>]>>,
     enums |-> <<>>]

\* the layouts of the other messages
Layouts ==
    [name3 : {"Foo", "Bar", "Baz"}, parent3 : {1, 2}, parent5 : {0, 2},
     key : {"TYPE_STRING"}, value : {"enum"}, package : {"", "p"},
     fname : {"my_api.proto"}]
    \cup
    [name3 : {"Baz"}, parent3 : {1}, parent5 : {2},
     key : {"TYPE_STRING", "TYPE_INT32"},
     value : {"int32", "string", "uint32", "enum", "msg2", "msg3"},
     package : {"p"}, fname : {"my_api.proto", "Api.proto"}]

DefaultLayout ==
    [name3 |-> "Baz", parent3 |-> 1, parent5 |-> 2, key |-> "TYPE_STRING",
     value |-> "enum", package |-> "p", fname |-> "my_api.proto"]

ValueField(kind) ==
    CASE kind = "int32"  -> Scalar(Chars("value"), "TYPE_INT32")
      [] kind = "string" -> Scalar(Chars("value"), "TYPE_STRING")
      [] kind = "uint32" -> Scalar(Chars("value"), "TYPE_UINT32")
      [] kind = "enum"   -> Field(Chars("value"), "TYPE_ENUM", FALSE, 0,
                                  Chars("Color"), FALSE)
      [] kind = "msg2"   -> Field(Chars("value"), "TYPE_MESSAGE", FALSE, 2,
                                  <<>>, FALSE)
      [] kind = "msg3"   -> Field(Chars("value"), "TYPE_MESSAGE", FALSE, 3,
                                  <<>>, FALSE)

Others(lay) ==
    [id \in 3..6 |->
        CASE id = 3 ->
               [name |-> Chars(lay.name3), parent |-> lay.parent3,
                map_entry |-> FALSE,
                fields |-> <<Scalar(Chars("x"), "TYPE_INT32")>>,
                oneofs |-> <<>>, enums |-> <<>>]
          [] id = 4 ->
               [name |-> Chars("MEntry"), parent |-> 1, map_entry |-> TRUE,
                fields |-> <<Scalar(Chars("key"), lay.key), ValueField(lay.value)>>,
                oneofs |-> <<>>, enums |-> <<>>]
          [] id = 5 ->
               [name |-> Chars("Stray"), parent |-> lay.parent5,
                map_entry |-> TRUE,
                fields |-> <<Scalar(Chars("key"), "TYPE_INT32"),
                             Scalar(Chars("value"), "TYPE_INT32")>>,
                oneofs |-> <<>>, enums |-> <<Hidden>>]
          [] id = 6 ->
               [name |-> Chars("Deep"), parent |-> 3, map_entry |-> FALSE,
                fields |-> <<Field(Chars("up"), "TYPE_MESSAGE", FALSE, 3,
                                   <<>>, FALSE)>>,
                oneofs |-> <<>>, enums |-> <<Shade>>]]

\* the ids 1..n whose message satisfies P, in increasing order
RECURSIVE ChildrenFrom(_, _, _)
ChildrenFrom(parents, p, id) ==
    IF id > Len(parents) THEN <<>>
    ELSE (IF parents[id] = p THEN <<id>> ELSE <<>>)
         \o ChildrenFrom(parents, p, id + 1)

MkFile(sh, lay) ==
    LET raw == [id \in 1..6 |->
                  IF id = 1 THEN Foo(sh)
                  ELSE IF id = 2 THEN Bar
                  ELSE Others(lay)[id]]
        parents == [id \in 1..6 |-> raw[id].parent]
    IN  [name |-> Chars(lay.fname),
         package |-> Chars(lay.package),
         enums |-> <<Color>>,
         message_type |-> ChildrenFrom(parents, 0, 1),
         msgs |-> [id \in 1..6 |->
                     [name |-> raw[id].name, parent |-> raw[id].parent,
                      map_entry |-> raw[id].map_entry,
                      fields |-> raw[id].fields, oneofs |-> raw[id].oneofs,
                      enums |-> raw[id].enums,
                      nested |-> ChildrenFrom(parents, id, 1)]]]

\* shapes under which every layout is tried
LayoutShapes ==
    {sh \in FooShapes :
        /\ Len(sh.ts) = 2 /\ sh.real = 0
        /\ sh.ts[1].type = "TYPE_MESSAGE" /\ sh.ts[1].message_type \in {3, 4}
        /\ sh.ts[2].type \in {"TYPE_MESSAGE", "TYPE_STRING"}
        /\ sh.ts[2].message_type \in {0, 2, 3} /\ ~sh.ts[2].repeated}

Files ==
    {MkFile(sh, [DefaultLayout EXCEPT !.fname = n]) :
        sh \in FooShapes, n \in {"my_api.proto", "Api.proto"}}
    \cup {MkFile(sh, lay) : sh \in LayoutShapes, lay \in Layouts}

(***************************************************************************)
(* The generation pass.                                                    *)
(***************************************************************************)
VARIABLES
    file,     \* the FileDescriptor handed to Generate
    pc,       \* the part of Generate to run next
    i,        \* the index of the loop over file->message_type
    units,    \* the output units opened so far, in order: the name, the id of
              \* the message the unit declares (0 if none) and the lines
    result    \* what Generate returned: "none" until it returns

vars == <<file, pc, i, units, result>>

Init ==
    /\ file \in Files
    /\ pc = "enums"
    /\ i = 1
    /\ units = <<>>
    /\ result = "none"

\* Generate up to the end of the enums unit
GenerateEnumsUnit ==
    /\ pc = "enums"
    /\ units' = Append(units, [name |-> enum_h(file), msg |-> 0,
                                lines |-> EnumsUnit(file)])
    /\ pc' = "structs"
    /\ i' = 1
    /\ UNCHANGED <<file, result>>

\* one iteration of the loop over the top-level messages
GenerateMessageUnit ==
    /\ pc = "structs"
    /\ i <= Len(file.message_type)
    /\ ~file.msgs[file.message_type[i]].map_entry
    /\ LET msg == file.msgs[file.message_type[i]]
       IN  units' = Append(units, [name  |-> "F" \o Str(msg.name) \o ".h",
                                   msg   |-> file.message_type[i],
                                   lines |-> MessageUnit(file, msg)])
    /\ i' = i + 1
    /\ UNCHANGED <<file, pc, result>>

\* the iteration that meets a map-entry message
SkipMapEntry ==
    /\ pc = "structs"
    /\ i <= Len(file.message_type)
    /\ file.msgs[file.message_type[i]].map_entry
    /\ i' = i + 1
    /\ UNCHANGED <<file, pc, units, result>>

GenerateConverterHeader ==
    /\ pc = "structs"
    /\ i > Len(file.message_type)
    /\ units' = Append(units, [name  |-> base_filename(file) \o "Converter.h",
                               msg   |-> 0,
                               lines |-> ConverterHeaderUnit(file)])
    /\ pc' = "converter"
    /\ UNCHANGED <<file, i, result>>

GenerateConverterSource ==
    /\ pc = "converter"
    /\ units' = Append(units, [name  |-> base_filename(file) \o "Converter.cpp",
                               msg   |-> 0,
                               lines |-> ConverterSourceUnit(file)])
    /\ result' = "true"
    /\ pc' = "done"
    /\ UNCHANGED <<file, i>>

Next ==
    \/ GenerateEnumsUnit
    \/ GenerateMessageUnit
    \/ SkipMapEntry
    \/ GenerateConverterHeader
    \/ GenerateConverterSource

Spec == Init /\ [][Next]_vars

(***************************************************************************)
(* Reading the emitted units.                                              *)
(***************************************************************************)
\* Generate has just returned
Done == pc = "done"

\* the ids of the messages for which a declaration unit was opened
Emitted == {units[k].msg : k \in DOMAIN units} \ {0}

\* the lines of the declaration unit opened for the message id
UnitOf(id) == units[CHOOSE k \in DOMAIN units : units[k].msg = id].lines

\* the lines of the converter implementation unit, the last unit opened
ConverterLines == units[Len(units)].lines

\* the lines of the conversion function of the message named n, from its
\* signature to its return
FunctionOf(n) ==
    LET L == ConverterLines
        b == CHOOSE k \in DOMAIN L :
                L[k].tpl = "F$n$ $cn$::Convert(const $ns$$n$& In) {" /\ L[k].n = n
        e == CHOOSE k \in DOMAIN L :
                /\ k > b /\ L[k].tpl = "return Out;"
                /\ \A x \in (b + 1)..(k - 1) : L[x].tpl # "return Out;"
    IN  SubSeq(L, b, e)

CaseAssignTpls ==
    {"Out.$un_f$ = $cn$::Convert(In.$pn_f$());",
     "Out.$un_f$ = FString(UTF8_TO_TCHAR(In.$pn_f$().c_str()));",
     "Out.$un_f$ = static_cast<$et$>(In.$pn_f$());",
     "Out.$un_f$ = In.$pn_f$();"}

FieldAssignTpls ==
    {"if (In.has_$pn$()) Out.$un$ = $cn$::Convert(In.$pn$());",
     "Out.$un$ = FString(UTF8_TO_TCHAR(In.$pn$().c_str()));",
     "Out.$un$ = static_cast<$et$>(In.$pn$());",
     "Out.$un$ = In.$pn$();",
     "Out.$un$.Add($cn$::Convert(E));",
     "Out.$un$.Add(FString(UTF8_TO_TCHAR(E.c_str())));",
     "Out.$un$.Add(static_cast<$et$>(E));",
     "Out.$un$.Add(E);",
     "Out.$un$.Add(P.first, $cn$::Convert(P.second));",
     "Out.$un$.Add(P.first, FString(UTF8_TO_TCHAR(P.second.c_str())));",
     "Out.$un$.Add(P.first, static_cast<$vet$>(P.second));",
     "Out.$un$.Add(P.first, P.second);"}

DiscriminatorAssignTpl == "Out.$un_t$Type = E$mn$$un_t$Type::$un_f$; break;"

\* the positions of the statements that assign a field member, and the
\* member a statement assigns
FieldAssigns(lines) ==
    {k \in DOMAIN lines : lines[k].tpl \in CaseAssignTpls \cup FieldAssignTpls}

DiscriminatorAssigns(lines) ==
    {k \in DOMAIN lines : lines[k].tpl = DiscriminatorAssignTpl}

Target(l) ==
    IF l.tpl \in CaseAssignTpls THEN l.un_f
    ELSE IF l.tpl = DiscriminatorAssignTpl THEN l.un_t \o "Type"
    ELSE l.un

AssignedNames(lines) ==
    {Target(lines[k]) : k \in FieldAssigns(lines) \cup DiscriminatorAssigns(lines)}

\* the positions of the members a struct declares, and their names
FieldMembers(lines) == {k \in DOMAIN lines : lines[k].tpl = "$up$$t$ $n$;"}

DiscriminatorMembers(lines) ==
    {k \in DOMAIN lines :
        lines[k].tpl = "$up$E$en$Type $sn$Type = E$en$Type::None;"}

DeclaredNames(lines) ==
    {lines[k].n : k \in FieldMembers(lines)}
    \cup {lines[k].sn \o "Type" : k \in DiscriminatorMembers(lines)}

\* the fields of m that are the sole member of a synthetic oneof
SyntheticFields(m) ==
    {j \in DOMAIN m.fields :
        containing_oneof(m.fields[j]) # 0 /\ real_containing_oneof(m.fields[j]) = 0}

\* the fields of m that are members of a real oneof
RealOneofFields(m) ==
    {j \in DOMAIN m.fields : real_containing_oneof(m.fields[j]) # 0}

(***************************************************************************)
(* The claims.                                                             *)
(***************************************************************************)

\* C1: for every message of the descriptor tree, the names that
\* GenerateStruct declares as struct members are the names that
\* GenerateStaticConversionFunction assigns in the conversion function of
\* the message, the discriminators counted on both sides; in particular
\* this holds of every declaration unit and conversion function emitted.
C1_MirroredNames ==
    Done =>
        /\ \A id \in DOMAIN file.msgs :
              DeclaredNames(GenerateStruct(file, file.msgs[id]))
              = AssignedNames(GenerateStaticConversionFunction(
                                  file, file.msgs[id], proto_ns(file)))
        /\ \A id \in Emitted :
              DeclaredNames(UnitOf(id))
              = AssignedNames(FunctionOf(Str(file.msgs[id].name)))

\* C1 witness: the pass is over for a file whose message Foo has a real
\* oneof, a proto3 optional field and a declared discriminator.
C1_Witness ==
    /\ Done
    /\ 1 \in Emitted
    /\ RealOneofFields(file.msgs[1]) # {}
    /\ SyntheticFields(file.msgs[1]) # {}
    /\ DiscriminatorMembers(UnitOf(1)) # {}
    /\ FieldMembers(UnitOf(1)) # {}

\* C2: every field member that GenerateStruct emits receives exactly one
\* assignment in the conversion function of its message, and every
\* assignment of the function targets an emitted member; the members of
\* real oneofs included.
C2_ExactlyOneAssignment ==
    Done =>
        \A id \in Emitted :
            LET decl == UnitOf(id)
                fn   == FunctionOf(Str(file.msgs[id].name))
            IN  /\ \A k \in FieldMembers(decl) :
                      Cardinality({a \in FieldAssigns(fn) :
                                      Target(fn[a]) = decl[k].n}) = 1
                /\ AssignedNames(fn) \subseteq DeclaredNames(decl)

\* C6: no declaration unit, converter signature or converter body is
\* emitted for a map-entry message, no enum owned by a map-entry message is
\* emitted, and no discriminator enum or discriminator member is emitted
\* for a synthetic oneof.
C6_NothingForEntriesAndSynthetics ==
    /\ \A id \in DOMAIN file.msgs :
          file.msgs[id].map_entry =>
             /\ id \notin Emitted
             /\ \A u \in DOMAIN units : \A k \in DOMAIN units[u].lines :
                   LET l == units[u].lines[k]
                   IN  /\ l.tpl \in {"$us$struct F$n$ {",
                                     "static F$n$ Convert(const $ns$$n$& In);",
                                     "F$n$ $cn$::Convert(const $ns$$n$& In) {",
                                     "F$n$ Out;"}
                          => l.n # Str(file.msgs[id].name)
                       /\ l.tpl = "UENUM(BlueprintType) enum class E$n$ : uint8 {"
                          => \A e \in DOMAIN file.msgs[id].enums :
                                l.n # Str(file.msgs[id].enums[e].name)
    /\ \A id \in DOMAIN file.msgs : \A o \in DOMAIN file.msgs[id].oneofs :
          LET m == file.msgs[id]
          IN  IsSyntheticOneof(m, m.oneofs[o]) =>
                 \A u \in DOMAIN units : \A k \in DOMAIN units[u].lines :
                    LET l == units[u].lines[k]
                    IN  /\ l.tpl = "UENUM(BlueprintType) enum class E$n$Type : uint8 {"
                           => l.n # Str(m.name) \o ToPascalCase(m.oneofs[o].name)
                        /\ (l.tpl = "$up$E$en$Type $sn$Type = E$en$Type::None;"
                            /\ units[u].msg = id)
                           => l.sn # ToPascalCase(m.oneofs[o].name)
                        /\ (l.tpl = "switch (In.$pn$_case()) {")
                           => l.pn # Str(m.oneofs[o].name)

\* C6 witness: the pass is over for a file with a top-level message flagged
\* map_entry that owns an enum, a map field whose entry message is nested
\* in Foo, and a synthetic oneof in Foo.
C6_Witness ==
    /\ Done
    /\ \E t \in DOMAIN file.message_type :
          /\ file.msgs[file.message_type[t]].map_entry
          /\ file.msgs[file.message_type[t]].enums # <<>>
    /\ SyntheticFields(file.msgs[1]) # {}
    /\ 1 \in Emitted
    /\ Len(units) >= 5

\* the assignments that are made only if In.has_<name>() holds
PresenceTestedTpls ==
    {"if (In.has_$pn$()) Out.$un$ = $cn$::Convert(In.$pn$());"}

\* C3: a field that is the sole member of a synthetic oneof is declared by
\* GenerateStruct as a member of type TOptional<base> and is assigned by
\* the conversion function, so that the converted record tells a source
\* with the field unset (member absent) from a source with the field set to
\* its zero value (member present): the one assignment of the member is
\* made under the test of In.has_<name>().
C3_Proto3OptionalIsEmitted ==
    Done =>
        \A id \in Emitted : \A j \in SyntheticFields(file.msgs[id]) :
            LET f    == file.msgs[id].fields[j]
                decl == UnitOf(id)
                fn   == FunctionOf(Str(file.msgs[id].name))
            IN  /\ \E k \in FieldMembers(decl) :
                      /\ decl[k].n = ToPascalCase(f.name)
                      /\ decl[k].t = "TOptional<" \o GetBaseUEType(file, f) \o ">"
                /\ \E a \in FieldAssigns(fn) : Target(fn[a]) = ToPascalCase(f.name)
                /\ \A a \in FieldAssigns(fn) :
                      Target(fn[a]) = ToPascalCase(f.name)
                      => /\ fn[a].tpl \in PresenceTestedTpls
                         /\ fn[a].pn = LowName(f.name)

\* C4: in one pass every message of the tree that is not a map-entry
\* message, top-level or nested at any depth, has its struct declaration
\* emitted exactly once.
C4_EveryMessageDeclaredOnce ==
    Done =>
        \A id \in DOMAIN file.msgs :
            ~file.msgs[id].map_entry =>
                Cardinality({k \in DOMAIN units : units[k].msg = id}) = 1

\* two distinct messages that are declared under the same identifier
Collision(fd) ==
    \E a, b \in DOMAIN fd.msgs :
        /\ a # b
        /\ ~fd.msgs[a].map_entry /\ ~fd.msgs[b].map_entry
        /\ "F" \o Str(fd.msgs[a].name) = "F" \o Str(fd.msgs[b].name)

\* C7: when two distinct messages yield the same generated identifier, the
\* pass fails: Generate does not return true.
C7_CollisionFails ==
    (Done /\ Collision(file)) => result # "true"

\* the names of the messages that the fields of message id refer to, from
\* field j on: each message once, in order of first use, the message id
\* itself left out; seen holds the ids already listed
RECURSIVE ReferencedFrom(_, _, _, _)
ReferencedFrom(fd, id, j, seen) ==
    IF j > Len(fd.msgs[id].fields) THEN <<>>
    ELSE LET target == DepTarget(fd, fd.msgs[id].fields[j])
         IN  IF target # 0 /\ target # id /\ target \notin seen
             THEN <<Str(fd.msgs[target].name)>>
                  \o ReferencedFrom(fd, id, j + 1, seen \cup {target})
             ELSE ReferencedFrom(fd, id, j + 1, seen)

\* the names included by a declaration unit, in order
Includes(lines) ==
    LET IsInclude(l) == l.tpl = "#include F$d$.h"
        inc == SelectSeq(lines, IsInclude)
    IN  [k \in DOMAIN inc |-> inc[k].d]

\* C8: the includes of a declaration unit are exactly the distinct
\* messages, other than the emitting message itself, that its message-typed
\* fields and the values of its map fields refer to, each once and in order
\* of first use; messages are told apart by identity, not by name.
C8_IncludesAreReferencedMessages ==
    Done =>
        \A id \in Emitted : Includes(UnitOf(id)) = ReferencedFrom(file, id, 1, {})

\* the key argument of an insertion into a map
KeyArgument(l) ==
    IF l.tpl \in {"Out.$un$.Add(P.first, $cn$::Convert(P.second));",
                  "Out.$un$.Add(P.first, FString(UTF8_TO_TCHAR(P.second.c_str())));",
                  "Out.$un$.Add(P.first, static_cast<$vet$>(P.second));",
                  "Out.$un$.Add(P.first, P.second);"}
    THEN "P.first"
    ELSE ""

\* the key argument that the rule of the kind of the key field asks for
KeyArgumentOf(fd, key) ==
    IF key.type = "TYPE_STRING" THEN "FString(UTF8_TO_TCHAR(P.first.c_str()))"
    ELSE IF key.type = "TYPE_ENUM"
         THEN "static_cast<" \o GetBaseUEType(fd, key) \o ">(P.first)"
    ELSE "P.first"

\* C9: the conversion of a map field converts the key by the rule of the
\* kind of the key (text keys are decoded to FString, enum keys are cast,
\* other scalars are copied) before it inserts into the container, whose
\* key type is GetBaseUEType of the key field: the emitted insertion passes
\* the key so converted.
C9_MapKeyConverted ==
    Done =>
        \A id \in Emitted :
            LET m    == file.msgs[id]
                fn   == FunctionOf(Str(m.name))
                decl == UnitOf(id)
            IN  \A j \in DOMAIN m.fields :
                   is_map(file, m.fields[j]) =>
                      LET key == FindFieldByName(
                                    file.msgs[m.fields[j].message_type], "key")
                          val == FindFieldByName(
                                    file.msgs[m.fields[j].message_type], "value")
                      IN  /\ \E k \in FieldMembers(decl) :
                                /\ decl[k].n = ToPascalCase(m.fields[j].name)
                                /\ decl[k].t = "TMap<" \o GetBaseUEType(file, key)
                                                \o ", " \o GetBaseUEType(file, val)
                                                \o ">"
                          /\ \E a \in FieldAssigns(fn) :
                                Target(fn[a]) = ToPascalCase(m.fields[j].name)
                          /\ \A a \in FieldAssigns(fn) :
                                Target(fn[a]) = ToPascalCase(m.fields[j].name)
                                => KeyArgument(fn[a]) = KeyArgumentOf(file, key)

\* the rule of data movement of an assignment
Rule(l) ==
    IF l.tpl \in {"Out.$un_f$ = $cn$::Convert(In.$pn_f$());",
                  "if (In.has_$pn$()) Out.$un$ = $cn$::Convert(In.$pn$());",
                  "Out.$un$.Add($cn$::Convert(E));",
                  "Out.$un$.Add(P.first, $cn$::Convert(P.second));"}
    THEN "convert"
    ELSE IF l.tpl \in {"Out.$un_f$ = FString(UTF8_TO_TCHAR(In.$pn_f$().c_str()));",
                       "Out.$un$ = FString(UTF8_TO_TCHAR(In.$pn$().c_str()));",
                       "Out.$un$.Add(FString(UTF8_TO_TCHAR(E.c_str())));",
                       "Out.$un$.Add(P.first, FString(UTF8_TO_TCHAR(P.second.c_str())));"}
    THEN "text"
    ELSE IF l.tpl \in {"Out.$un_f$ = static_cast<$et$>(In.$pn_f$());",
                       "Out.$un$ = static_cast<$et$>(In.$pn$());",
                       "Out.$un$.Add(static_cast<$et$>(E));",
                       "Out.$un$.Add(P.first, static_cast<$vet$>(P.second));"}
    THEN "cast"
    ELSE "copy"

\* the rule of data movement of the kind of a field
RuleOf(f) ==
    IF f.type = "TYPE_MESSAGE" THEN "convert"
    ELSE IF f.type = "TYPE_STRING" THEN "text"
    ELSE IF f.type = "TYPE_ENUM" THEN "cast"
    ELSE "copy"

\* the position of the last of the lines before position a whose template is
\* in tpls, 0 if there is none
LastBefore(lines, a, tpls) ==
    LET marks == {k \in 1..(a - 1) : lines[k].tpl \in tpls}
    IN  IF marks = {} THEN 0
        ELSE CHOOSE k \in marks : \A x \in marks : x <= k

\* the oneof whose switch encloses statement a of a conversion function,
\* "" if a lies outside every switch
SwitchOf(lines, a) ==
    LET k == LastBefore(lines, a, {"switch (In.$pn$_case()) {",
                                   "default: break; }"})
    IN  IF k # 0 /\ lines[k].tpl = "switch (In.$pn$_case()) {"
        THEN lines[k].pn ELSE ""

\* the member whose case encloses statement a of a conversion function:
\* the member of the nearest case label before a, "" if a lies outside
\* every switch
CaseOf(lines, a) ==
    LET k == LastBefore(lines, a, {"case $ns$$mn$::k$un_f$:",
                                   "switch (In.$pn$_case()) {",
                                   "default: break; }"})
    IN  IF k # 0 /\ lines[k].tpl = "case $ns$$mn$::k$un_f$:"
        THEN lines[k].un_f ELSE ""

\* C5: for every real oneof and every source instance the converted record
\* has the discriminator of the member that is set (None if no member is
\* set), the converted value in the field of that member, and the zero
\* value in the fields of all other members of the oneof.  On the emitted
\* code: the discriminator member is initialised to None; the case of a
\* member in the switch of the oneof assigns the member by the rule of its
\* kind and the discriminator its enumerator; and nothing outside the case
\* of a member assigns the member or the discriminator.
C5_UnionConversion ==
    Done =>
        \A id \in Emitted :
            LET m    == file.msgs[id]
                fn   == FunctionOf(Str(m.name))
                decl == UnitOf(id)
            IN  \A o \in DOMAIN m.oneofs :
                  ~IsSyntheticOneof(m, m.oneofs[o]) =>
                     LET un_t == ToPascalCase(m.oneofs[o].name)
                         en   == Str(m.name) \o un_t
                         mem  == {j \in DOMAIN m.fields : m.fields[j].oneof = o}
                     IN  /\ \E k \in DiscriminatorMembers(decl) :
                               decl[k].sn = un_t /\ decl[k].en = en
                         /\ \A j \in mem :
                               LET n == ToPascalCase(m.fields[j].name)
                               IN  /\ \E a \in FieldAssigns(fn) :
                                         /\ Target(fn[a]) = n
                                         /\ SwitchOf(fn, a) = Str(m.oneofs[o].name)
                                         /\ CaseOf(fn, a) = n
                                         /\ Rule(fn[a]) = RuleOf(m.fields[j])
                                   /\ \E d \in DiscriminatorAssigns(fn) :
                                         /\ Target(fn[d]) = un_t \o "Type"
                                         /\ CaseOf(fn, d) = n
                                         /\ fn[d].mn \o fn[d].un_t = en
                                         /\ fn[d].un_f = n
                                   /\ \A a \in FieldAssigns(fn) :
                                         Target(fn[a]) = n => CaseOf(fn, a) = n
                         /\ \A d \in DiscriminatorAssigns(fn) :
                               Target(fn[d]) = un_t \o "Type"
                               => /\ SwitchOf(fn, d) = Str(m.oneofs[o].name)
                                  /\ CaseOf(fn, d) = fn[d].un_f

\* C10: the rule of data movement of every assignment matches the base
\* type GetBaseUEType gives the field (for a map field, its value): text
\* decoding iff the base type is FString, a cast iff it is a generated
\* enum, a Convert call iff it is a generated struct, a copy otherwise.
C10_RuleMatchesBaseType ==
    Done =>
        \A id \in Emitted :
            LET m  == file.msgs[id]
                fn == FunctionOf(Str(m.name))
            IN  \A j \in DOMAIN m.fields : \A a \in FieldAssigns(fn) :
                   Target(fn[a]) = ToPascalCase(m.fields[j].name) =>
                      LET f == IF is_map(file, m.fields[j])
                               THEN FindFieldByName(
                                       file.msgs[m.fields[j].message_type], "value")
                               ELSE m.fields[j]
                      IN  /\ Rule(fn[a]) = "text"
                             <=> GetBaseUEType(file, f) = "FString"
                          /\ Rule(fn[a]) = "cast" <=> f.type = "TYPE_ENUM"
                          /\ Rule(fn[a]) = "convert" <=> f.type = "TYPE_MESSAGE"

=============================================================================
